---- MODULE Spec2Model ----
(***************************************************************************)
(* Model of src/png_normalizer.rs of ipa-metadata: detection of Apple's    *)
(* CgBI PNG variant (is_cgbi_png), its rewriting into a standard PNG       *)
(* (normalize_cgbi_png, write_chunk, crc32, normalize_idat) and the        *)
(* BGRA -> RGBA channel swap (swap_rgb_channels_optimized).                *)
(*                                                                         *)
(* Buffers are sequences of bytes (0..255); code offsets are 0-based, so   *)
(* data[i] of the code is data[i + 1] here.  usize is 64 bits wide: no     *)
(* usize computation of the code can reach 2^64 from 32-bit operands and   *)
(* buffer lengths, so usize arithmetic is plain arithmetic.                *)
(***************************************************************************)
EXTENDS Integers, Sequences, FiniteSets, TLC

VARIABLES
    call,          \* which entry point this run exercises
    data,          \* the input buffer (&[u8] / &mut [u8])
    pc,            \* position of the call
    outcome,       \* "none", "Ok", "Err", "Panic"
    error,         \* the message of the Err or of the panic, "" if none
    result,        \* normalize_cgbi_png: the output Vec<u8>
    pos,           \* normalize_cgbi_png: read offset of the chunk scan
    idat_data,     \* normalize_cgbi_png: accumulated IDAT payload
    width,         \* geometry read from IHDR (u32)
    height,        \* geometry read from IHDR (u32)
    buf_size,      \* normalize_idat: length of the destination buffer
    cursor,        \* normalize_idat: offset of the Cursor in compressed
    fed,           \* normalize_idat: input the decompressor has consumed
    decompressed,  \* normalize_idat: decompressed[..output_pos]
    verdict,       \* is_cgbi_png: the returned bool
    oob            \* swap_rgb_channels_optimized: an access left the buffer

vars == <<call, data, pc, outcome, error, result, pos, idat_data, width, height,
          buf_size, cursor, fed, decompressed, verdict, oob>>

(***************************************************************************)
(* Bytes and 32-bit words.  A u32 is the pair <<hi, lo>> of its 16-bit     *)
(* halves (value hi * 65536 + lo), so that every value up to 2^32 - 1 is   *)
(* exact.                                                                  *)
(***************************************************************************)
Min(a, b) == IF a < b THEN a ELSE b

Half == 256 * 256

U32(n) == << (n \div Half) % Half, n % Half >>

\* u32::to_be_bytes
to_be_bytes(w) ==
    << w[1] \div 256, w[1] % 256, w[2] \div 256, w[2] % 256 >>

\* u32::from_be_bytes([s[i], s[i+1], s[i+2], s[i+3]]), i 0-based
from_be_bytes(s, i) ==
    << s[i + 1] * 256 + s[i + 2], s[i + 3] * 256 + s[i + 4] >>

\* data[a..b] of the code (0-based, b exclusive)
Slice(s, a, b) == SubSeq(s, a + 1, b)

\* a ^ b on naturals
RECURSIVE BitXor(_, _)
BitXor(a, b) ==
    IF a = 0 THEN b
    ELSE IF b = 0 THEN a
    ELSE ((a + b) % 2) + 2 * BitXor(a \div 2, b \div 2)

\* a ^ b on 16-bit values, four bits at a time
XorNibble == [a \in 0..15 |-> [b \in 0..15 |-> BitXor(a, b)]]

Xor16(a, b) ==
    XorNibble[a % 16][b % 16]
    + 16 * XorNibble[(a \div 16) % 16][(b \div 16) % 16]
    + 256 * XorNibble[(a \div 256) % 16][(b \div 256) % 16]
    + 4096 * XorNibble[a \div 4096][b \div 4096]

PNG_HEADER == << 137, 80, 78, 71, 13, 10, 26, 10 >>
TagCgBI == << 67, 103, 66, 73 >>
TagIHDR == << 73, 72, 68, 82 >>
TagIDAT == << 73, 68, 65, 84 >>
TagIEND == << 73, 69, 78, 68 >>
TagTEXT == << 116, 69, 88, 116 >>

(***************************************************************************)
(* crc32 and write_chunk                                                   *)
(***************************************************************************)
CrcPolyHi == 60856
CrcPolyLo == 33568
CrcInit == << 65535, 65535 >>
CrcBitsPerByte == 8

\* one round of the inner loop, lines 116-120
CrcShift(crc) ==
    LET hi == crc[1] \div 2
        lo == (crc[2] \div 2) + (crc[1] % 2) * 32768
    IN  IF crc[2] % 2 # 0
        THEN << Xor16(hi, CrcPolyHi), Xor16(lo, CrcPolyLo) >>
        ELSE << hi, lo >>

\* (the value of each round is bound before the next round uses it)
RECURSIVE CrcRounds(_, _)
CrcRounds(crc, n) ==
    IF n = 0 THEN crc
    ELSE CHOOSE r \in { CrcRounds(next, n - 1) : next \in { CrcShift(crc) } } :
             TRUE

\* the body of the outer loop for one byte, lines 114-121
CrcByte(crc, byte) ==
    CHOOSE r \in { CrcRounds(x, CrcBitsPerByte)
                      : x \in { << crc[1], Xor16(crc[2], byte) >> } } : TRUE

RECURSIVE CrcFold(_, _, _)
CrcFold(crc, s, i) ==
    IF i > Len(s) THEN crc
    ELSE CHOOSE r \in { CrcFold(next, s, i + 1) : next \in { CrcByte(crc, s[i]) } } :
             TRUE

\* !crc
BitNot32(crc) == << (Half - 1) - crc[1], (Half - 1) - crc[2] >>

\* a crc32 that leaves out the final complement
crc32_NoFinalXor(chunk_type, chunk_data) ==
    CrcFold(CrcInit, chunk_type \o chunk_data, 1)

crc32(chunk_type, chunk_data) ==
    CHOOSE r \in UNION { { BitNot32(crc) : crc \in { CrcFold(CrcInit, s, 1) } }
                          : s \in { chunk_type \o chunk_data } } : TRUE

\* the bytes write_chunk appends to output (the arguments are values: each
\* is evaluated once, then bound)
write_chunk(chunk_type, chunk_data) ==
    CHOOSE output \in
        UNION { { to_be_bytes(U32(Len(d))) \o t \o d \o to_be_bytes(crc)
                      : crc \in { crc32(t, d) } }
                : <<t, d>> \in { << chunk_type, chunk_data >> } } : TRUE

(***************************************************************************)
(* u32 arithmetic of the size computation of normalize_idat (line 130).    *)
(* Each operation gives the wrapped value and whether it overflowed.       *)
(***************************************************************************)
\* the four bytes of a u32, least significant first
LeBytes(w) == << w[2] % 256, w[2] \div 256, w[1] % 256, w[1] \div 256 >>

\* column k (0-based) of the schoolbook product of two 4-byte numbers
MulColumn(x, y, k) ==
    LET term(i) == IF k - i >= 0 /\ k - i <= 3 THEN x[i + 1] * y[k - i + 1] ELSE 0
    IN  term(0) + term(1) + term(2) + term(3)

\* the 8 bytes of x * y, least significant first
RECURSIVE MulDigits(_, _, _, _)
MulDigits(x, y, k, carry) ==
    IF k > 7 THEN << >>
    ELSE LET c == MulColumn(x, y, k) + carry
         IN  << c % 256 >> \o MulDigits(x, y, k + 1, c \div 256)

\* a * b in u32: wrapped value and overflow (the digits of the product are
\* computed once, then bound)
mul_u32(a, b) ==
    CHOOSE r \in
        UNION { { [ val |-> << d[4] * 256 + d[3], d[2] * 256 + d[1] >>,
                    ovf |-> d[5] + d[6] + d[7] + d[8] > 0 ]
                      : d \in { MulDigits(x, y, 0, 0) } }
                : <<x, y>> \in { << LeBytes(a), LeBytes(b) >> } } : TRUE

\* a + b in u32: wrapped value and overflow (the operands are evaluated
\* once, then bound)
add_u32(a, b) ==
    CHOOSE r \in
        { LET lo == x[2] + y[2]
              hi == x[1] + y[1] + (lo \div Half)
          IN  [ val |-> << hi % Half, lo % Half >>, ovf |-> hi >= Half ]
              : <<x, y>> \in { << a, b >> } } : TRUE

BytesPerPixel == << 0, 4 >>

\* width * height * 4 + height, evaluated left to right in u32
buf_size_u32(w, h) ==
    LET wh  == mul_u32(w, h)
        wh4 == mul_u32(wh.val, BytesPerPixel)
        tot == add_u32(wh4.val, h)
    IN  [ val |-> tot.val, ovf |-> wh.ovf \/ wh4.ovf \/ tot.ovf ]

\* A u32 or usize as a length of the model: every buffer of the model is
\* shorter than 65536 bytes, so a value of 65536 or more acts as 65536.
AsLen(w) == IF w[1] > 0 THEN Half ELSE w[2]

(***************************************************************************)
(* flate2: raw DEFLATE decoding (Decompress::new(false)) and zlib encoding *)
(* (ZlibEncoder).  Streams of the model are made of stored blocks          *)
(* (BTYPE = 00) and of blocks of the reserved type (BTYPE = 11), which is  *)
(* a data error; Huffman-coded blocks are outside the model ("huffman").   *)
(***************************************************************************)
\* Decoding of the stream s from the block header at offset p, with out
\* already produced and room for cap bytes of output in all:
\*   st = "end"   the final block was decoded (Status::StreamEnd)
\*        "more"  the input ran out before the end of the stream
\*        "full"  the output buffer is full and input is left
\*        "error" the stream is corrupt (DecompressError)
\* used is the number of input bytes taken.
RECURSIVE InflateFrom(_, _, _, _)
InflateFrom(s, p, out, cap) ==
    IF p >= Len(s) THEN [out |-> out, used |-> Len(s), st |-> "more"]
    ELSE
    LET hdr    == s[p + 1]
        bfinal == hdr % 2
        btype  == (hdr \div 2) % 4
    IN  IF btype = 3 THEN [out |-> out, used |-> p + 1, st |-> "error"]
        ELSE IF btype # 0 THEN [out |-> out, used |-> p + 1, st |-> "huffman"]
        ELSE IF p + 5 > Len(s) THEN [out |-> out, used |-> Len(s), st |-> "more"]
        ELSE
        LET len   == s[p + 2] + 256 * s[p + 3]
            nlen  == s[p + 4] + 256 * s[p + 5]
            avail == Min(len, Len(s) - (p + 5))
            n     == Min(avail, cap - Len(out))
            out2  == out \o SubSeq(s, p + 6, p + 5 + n)
        IN  IF len + nlen # 65535
            THEN [out |-> out, used |-> p + 5, st |-> "error"]
            ELSE IF n < avail
            THEN [out |-> out2, used |-> p + 5 + n, st |-> "full"]
            ELSE IF avail < len
            THEN [out |-> out2, used |-> Len(s), st |-> "more"]
            ELSE IF bfinal = 1
            THEN [out |-> out2, used |-> p + 5 + len, st |-> "end"]
            ELSE InflateFrom(s, p + 5 + len, out2, cap)

\* the decoder's view after it has taken the input s
Inflate(s, cap) == InflateFrom(s, 0, << >>, cap)

RECURSIVE AdlerFold(_, _, _, _)
AdlerFold(s, i, a, b) ==
    IF i > Len(s) THEN << b, a >>
    ELSE LET a2 == (a + s[i]) % 65521
         IN  AdlerFold(s, i + 1, a2, (b + a2) % 65521)

\* Adler-32 of s as a u32
Adler32(s) == AdlerFold(s, 1, 1, 0)

\* one final stored block holding raw (fewer than 65536 bytes)
StoredBlock(raw) ==
    << 1, Len(raw) % 256, Len(raw) \div 256,
       255 - (Len(raw) % 256), 255 - (Len(raw) \div 256) >> \o raw

\* ZlibEncoder at Compression::fast(): header 78 01, a DEFLATE body that
\* inflates to raw, the Adler-32 of raw.  The body is modelled as one
\* stored block.
ZlibEncode(raw) ==
    << 120, 1 >> \o StoredBlock(raw) \o to_be_bytes(Adler32(raw))

(***************************************************************************)
(* swap_rgb_channels_optimized.  A buffer under the swap is the record     *)
(* [buf, oob]: the bytes, and whether an access fell outside them.         *)
(***************************************************************************)
BatchBytes == 16

\* data.swap(i, j) / ptr::swap(ptr + i, ptr + j), 0-based
SwapAt(r, i, j) ==
    IF i >= Len(r.buf) \/ j >= Len(r.buf)
    THEN [r EXCEPT !.oob = TRUE]
    ELSE [r EXCEPT !.buf = [r.buf EXCEPT ![i + 1] = r.buf[j + 1],
                                          ![j + 1] = r.buf[i + 1]]]

\* the unsafe block, lines 199-209: four pixels from offset i
SwapBatch(r, i) ==
    SwapAt(SwapAt(SwapAt(SwapAt(r, i, i + 2), i + 4, i + 6), i + 8, i + 10),
           i + 12, i + 14)

\* a remainder loop that asks for two bytes of the pixel only
RECURSIVE SwapRemaining_Short(_, _, _)
SwapRemaining_Short(r, i, row_end) ==
    IF i + 1 < row_end
    THEN SwapRemaining_Short(SwapAt(r, i, i + 2), i + 4, row_end)
    ELSE r

\* the loop of lines 214-217
RECURSIVE SwapRemaining(_, _, _)
SwapRemaining(r, i, row_end) ==
    IF i + 3 < row_end
    THEN SwapRemaining(SwapAt(r, i, i + 2), i + 4, row_end)
    ELSE r

\* the loop of lines 197-211, followed by the remainder loop
RECURSIVE SwapRow(_, _, _)
SwapRow(r, i, row_end) ==
    IF i + (BatchBytes - 1) < row_end
    THEN SwapRow(SwapBatch(r, i), i + BatchBytes, row_end)
    ELSE SwapRemaining(r, i, row_end)

\* the loop over rows, lines 186-220; w and h are lengths (usize)
RECURSIVE SwapRows(_, _, _, _)
SwapRows(r, p, rows, w) ==
    IF rows = 0 \/ p >= Len(r.buf) THEN r
    ELSE LET row_end == Min(p + 1 + w * 4, Len(r.buf))
         IN  SwapRows(SwapRow(r, p + 1, row_end), row_end, rows - 1, w)

\* a rebuild that leaves the channels as they are
swap_rgb_channels_None(buf, w, h) == [buf |-> buf, oob |-> FALSE]

swap_rgb_channels_optimized(buf, w, h) ==
    SwapRows([buf |-> buf, oob |-> FALSE], 0, h, w)

(***************************************************************************)
(* is_cgbi_png                                                             *)
(***************************************************************************)
MinHeaderLen == 20

\* a detector that only asks for the 16 bytes it reads
is_cgbi_png_Len16(d) ==
    IF Len(d) < 16 \/ Slice(d, 0, 8) # PNG_HEADER
    THEN FALSE
    ELSE Slice(d, 12, 16) = TagCgBI

is_cgbi_png(d) ==
    IF Len(d) < MinHeaderLen \/ Slice(d, 0, 8) # PNG_HEADER
    THEN FALSE
    ELSE Slice(d, 12, 16) = TagCgBI

(***************************************************************************)
(* Inputs.  A buffer is the signature followed by chunks taken from a      *)
(* small menu, possibly cut short at the end.                              *)
(***************************************************************************)
MaxChunks == 5
MaxCut == 1
TempBufLen == 4

\* raw DEFLATE of the scanline [0, 10, 20, 30, 255]: one final stored block
RawPixelStream == << 1, 5, 0, 250, 255, 0, 10, 20, 30, 255 >>

Kinds == { "CgBI", "IHDR", "IHDR0", "IHDRbig", "IDAT", "IDATa", "IDATb",
           "tEXt", "IEND" }

HeaderKinds == { "IHDR", "IHDR0", "IHDRbig" }

KindTag(k) ==
    CASE k = "CgBI" -> TagCgBI
      [] k \in HeaderKinds -> TagIHDR
      [] k \in { "IDAT", "IDATa", "IDATb" } -> TagIDAT
      [] k = "tEXt" -> TagTEXT
      [] k = "IEND" -> TagIEND

KindPayload(k) ==
    CASE k = "CgBI"    -> << 80, 0, 32, 2 >>
      [] k = "IHDR"    -> << 0, 0, 0, 1, 0, 0, 0, 1, 8, 6, 0, 0, 0 >>
      [] k = "IHDR0"   -> << >>
      [] k = "IHDRbig" -> << 0, 0, 128, 0, 0, 0, 128, 0, 8, 6, 0, 0, 0 >>
      [] k = "IDAT"    -> RawPixelStream
      [] k = "IDATa"   -> SubSeq(RawPixelStream, 1, 8)
      [] k = "IDATb"   -> SubSeq(RawPixelStream, 9, 10)
      [] k = "tEXt"    -> << 65, 0, 66 >>
      [] k = "IEND"    -> << >>

\* the CRC field a well-formed file carries for each chunk of the menu
KindCrc == [k \in Kinds |-> to_be_bytes(crc32(KindTag(k), KindPayload(k)))]

\* a chunk as found in a file: with its true CRC, or with a wrong one
FileChunk(k, goodCrc) ==
    to_be_bytes(U32(Len(KindPayload(k)))) \o KindTag(k) \o KindPayload(k)
        \o (IF goodCrc THEN KindCrc[k] ELSE << 222, 173, 190, 239 >>)

RECURSIVE FileChunks(_, _, _)
FileChunks(layout, i, goodCrc) ==
    IF i > Len(layout) THEN << >>
    ELSE FileChunk(layout[i], goodCrc) \o FileChunks(layout, i + 1, goodCrc)

File(layout, goodCrc) == PNG_HEADER \o FileChunks(layout, 1, goodCrc)

\* layouts: the first chunk is the marker or the header, no kind occurs
\* twice, at most one header chunk
LayoutsUpTo(m) ==
    UNION { { s \in [1..n -> Kinds] :
                /\ s[1] \in { "CgBI", "IHDR" }
                /\ \A i, j \in 1..n : i # j => s[i] # s[j]
                /\ Cardinality({ i \in 1..n : s[i] \in HeaderKinds }) <= 1 }
            : n \in 1..m }

Layouts == LayoutsUpTo(MaxChunks)

\* every prefix of a marked file that is shorter than the 20 bytes line 22
\* asks for
ShortInputs ==
    { SubSeq(File(<< "CgBI", "IEND" >>, TRUE), 1, n) : n \in 0..(MinHeaderLen - 1) }

\* a marked file with one byte of its signature replaced
BadSignatureInputs ==
    { [ File(<< "CgBI", "IEND" >>, TRUE) EXCEPT ![i] = 0 ] : i \in 1..Len(PNG_HEADER) }

\* a marked file whose pixel data goes on after the end of its DEFLATE
\* stream: the whole stream, then its first 8 bytes again
TrailingDataInputs ==
    { File(<< "CgBI", "IHDR", "IDAT", "IDATa", "IEND" >>, g) : g \in BOOLEAN }

\* buffers normalize_cgbi_png is called with
InputsOf(layouts) ==
    UNION { LET f == File(l, g)
            IN  { SubSeq(f, 1, Len(f) - c) : c \in 0..MaxCut }
            : l \in layouts, g \in BOOLEAN }
    \cup { << >>, PNG_HEADER, SubSeq(File(<< "CgBI" >>, FALSE), 1, 19),
           << 0 >> \o SubSeq(File(<< "CgBI", "IEND" >>, FALSE), 2, 36) }
    \cup ShortInputs \cup BadSignatureInputs \cup TrailingDataInputs

Inputs == InputsOf(Layouts)

InitCommon ==
    /\ pc = "start"
    /\ outcome = "none"
    /\ error = ""
    /\ result = << >>
    /\ pos = 0
    /\ idat_data = << >>
    /\ buf_size = << 0, 0 >>
    /\ cursor = 0
    /\ fed = << >>
    /\ decompressed = << >>
    /\ verdict = FALSE
    /\ oob = FALSE

Init ==
    /\ call = "normalize_cgbi_png"
    /\ data \in Inputs
    /\ width = << 0, 0 >>
    /\ height = << 0, 0 >>
    /\ InitCommon

(***************************************************************************)
(* normalize_cgbi_png                                                      *)
(***************************************************************************)
\* the chunk at offset p of d, as lines 47-56 read it
ChunkLength(d, p) == from_be_bytes(d, p)
ChunkType(d, p) == Slice(d, p + 4, p + 8)

\* pos + 12 <= data.len() and chunk_data_end + 4 <= data.len(); a declared
\* length of 65536 or more runs past the end of every buffer of the model
ChunkFits(d, p) ==
    /\ p + 12 <= Len(d)
    /\ ChunkLength(d, p)[1] = 0
    /\ p + 8 + ChunkLength(d, p)[2] + 4 <= Len(d)

ChunkDataEnd(d, p) == p + 8 + ChunkLength(d, p)[2]
ChunkData(d, p) == Slice(d, p + 8, ChunkDataEnd(d, p))

Finish(o) ==
    /\ pc' = "done"
    /\ outcome' = o

\* return Err(IpaError::PngNormalization(msg)), or a panic with message msg
Fail(o, msg) ==
    /\ pc' = "done"
    /\ outcome' = o
    /\ error' = msg

\* a header check that asks for the 8 signature bytes only
HeaderInvalid_SignatureOnly(d) ==
    IF Len(d) < 8 THEN TRUE ELSE Slice(d, 0, 8) # PNG_HEADER

\* the condition of line 22
HeaderInvalid(d) ==
    IF Len(d) < MinHeaderLen THEN TRUE ELSE Slice(d, 0, 8) # PNG_HEADER

\* the conditions of lines 42, 43 and 52 under which the loop goes on
ChunkAhead(d, p) == IF p >= Len(d) THEN FALSE ELSE ChunkFits(d, p)

\* a pass-through that keeps the signature only
PassThroughResult_Header(d) == Slice(d, 0, 8)

\* what PassThrough returns: data.to_vec(), line 30
PassThroughResult(d) == d

\* the condition of line 76
NeedsRebuild(idat, w, h) ==
    idat # << >> /\ w # << 0, 0 >> /\ h # << 0, 0 >>

\* lines 22-26
RejectHeader ==
    /\ call = "normalize_cgbi_png" /\ pc = "start"
    /\ HeaderInvalid(data)
    /\ Fail("Err", "Invalid PNG header")
    /\ UNCHANGED << call, data, result, pos, idat_data, width, height,
                    buf_size, cursor, fed, decompressed, verdict, oob >>

\* lines 28-31
PassThrough ==
    /\ call = "normalize_cgbi_png" /\ pc = "start"
    /\ ~HeaderInvalid(data)
    /\ ~is_cgbi_png(data)
    /\ result' = PassThroughResult(data)
    /\ Finish("Ok")
    /\ UNCHANGED << call, error, data, pos, idat_data, width, height,
                    buf_size, cursor, fed, decompressed, verdict, oob >>

\* lines 33-39
BeginScan ==
    /\ call = "normalize_cgbi_png" /\ pc = "start"
    /\ ~HeaderInvalid(data)
    /\ is_cgbi_png(data)
    /\ result' = Slice(data, 0, 8)
    /\ pos' = 8
    /\ pc' = "scan"
    /\ UNCHANGED << call, error, data, outcome, idat_data, width, height,
                    buf_size, cursor, fed, decompressed, verdict, oob >>

\* the loop ends without IEND: lines 42-45, 52-54, then line 94
ScanStop ==
    /\ pc = "scan"
    /\ ~ChunkAhead(data, pos)
    /\ Finish("Ok")
    /\ UNCHANGED << call, error, data, result, pos, idat_data, width, height,
                    buf_size, cursor, fed, decompressed, verdict, oob >>

AtChunk(tag) ==
    /\ pc = "scan"
    /\ ChunkAhead(data, pos)
    /\ ChunkType(data, pos) = tag

\* lines 59-66 and 91
ScanIHDR ==
    /\ AtChunk(TagIHDR)
    /\ Len(ChunkData(data, pos)) >= 8
    /\ width' = from_be_bytes(ChunkData(data, pos), 0)
    /\ height' = from_be_bytes(ChunkData(data, pos), 4)
    /\ result' = result \o write_chunk(TagIHDR, ChunkData(data, pos))
    /\ pos' = ChunkDataEnd(data, pos) + 4
    /\ UNCHANGED << call, error, data, pc, outcome, idat_data,
                    buf_size, cursor, fed, decompressed, verdict, oob >>

\* lines 61-62 with a payload shorter than 8 bytes: chunk_data[i] is out of
\* range and the indexing panics
ScanIHDRPanic ==
    /\ AtChunk(TagIHDR)
    /\ Len(ChunkData(data, pos)) < 8
    /\ Fail("Panic", "index out of bounds")
    /\ UNCHANGED << call, data, result, pos, idat_data, width, height,
                    buf_size, cursor, fed, decompressed, verdict, oob >>

\* an IDAT arm that also copies the chunk through
ScanIDAT_Copied ==
    /\ AtChunk(TagIDAT)
    /\ idat_data' = idat_data \o ChunkData(data, pos)
    /\ result' = result \o write_chunk(TagIDAT, ChunkData(data, pos))
    /\ pos' = ChunkDataEnd(data, pos) + 4
    /\ UNCHANGED << call, error, data, pc, outcome, width, height,
                    buf_size, cursor, fed, decompressed, verdict, oob >>

\* lines 67-70 and 91
ScanIDAT ==
    /\ AtChunk(TagIDAT)
    /\ idat_data' = idat_data \o ChunkData(data, pos)
    /\ pos' = ChunkDataEnd(data, pos) + 4
    /\ UNCHANGED << call, error, data, pc, outcome, result, width, height,
                    buf_size, cursor, fed, decompressed, verdict, oob >>

\* a scan without the CgBI arm: the chunk falls to the default arm
ScanCgBI_Copied ==
    /\ AtChunk(TagCgBI)
    /\ result' = result \o write_chunk(TagCgBI, ChunkData(data, pos))
    /\ pos' = ChunkDataEnd(data, pos) + 4
    /\ UNCHANGED << call, error, data, pc, outcome, idat_data, width, height,
                    buf_size, cursor, fed, decompressed, verdict, oob >>

\* lines 71-73 and 91
ScanCgBI ==
    /\ AtChunk(TagCgBI)
    /\ pos' = ChunkDataEnd(data, pos) + 4
    /\ UNCHANGED << call, error, data, pc, outcome, result, idat_data, width, height,
                    buf_size, cursor, fed, decompressed, verdict, oob >>

\* lines 85-88 and 91
ScanOther ==
    /\ pc = "scan"
    /\ ChunkAhead(data, pos)
    /\ ChunkType(data, pos) \notin { TagIHDR, TagIDAT, TagCgBI, TagIEND }
    /\ result' = result \o write_chunk(ChunkType(data, pos), ChunkData(data, pos))
    /\ pos' = ChunkDataEnd(data, pos) + 4
    /\ UNCHANGED << call, error, data, pc, outcome, idat_data, width, height,
                    buf_size, cursor, fed, decompressed, verdict, oob >>

\* lines 74-84 when line 76 is false, then line 94
ScanIEND ==
    /\ AtChunk(TagIEND)
    /\ ~NeedsRebuild(idat_data, width, height)
    /\ result' = result \o write_chunk(TagIEND, << >>)
    /\ Finish("Ok")
    /\ UNCHANGED << call, error, data, pos, idat_data, width, height,
                    buf_size, cursor, fed, decompressed, verdict, oob >>

\* line 77 calls normalize_idat; lines 130-136.  Where the u32 computation
\* of line 130 overflows, a build without overflow checks goes on with the
\* wrapped value.
EnterNormalizeIdat ==
    /\ AtChunk(TagIEND)
    /\ NeedsRebuild(idat_data, width, height)
    /\ buf_size' = buf_size_u32(width, height).val
    /\ cursor' = 0
    /\ fed' = << >>
    /\ decompressed' = << >>
    /\ pc' = "inflate"
    /\ UNCHANGED << call, error, data, outcome, result, pos, idat_data, width, height,
                    verdict, oob >>

\* line 130 in a build with overflow checks: the overflow panics
SizeOverflowPanic ==
    /\ AtChunk(TagIEND)
    /\ NeedsRebuild(idat_data, width, height)
    /\ buf_size_u32(width, height).ovf
    /\ Fail("Panic", "arithmetic overflow")
    /\ UNCHANGED << call, data, result, pos, idat_data, width, height,
                    buf_size, cursor, fed, decompressed, verdict, oob >>

(***************************************************************************)
(* normalize_idat: the inflate loop, lines 138-160.  The Cursor hands over *)
(* at most TempBufLen bytes per iteration (8192 in the code).              *)
(***************************************************************************)
BytesRead == Min(TempBufLen, Len(idat_data) - cursor)

\* the decoder after the decompress call of lines 150-152
Decompressed ==
    Inflate(fed \o Slice(idat_data, cursor, cursor + BytesRead), AsLen(buf_size))

\* lines 139-145: the Cursor is exhausted
InflateEnd ==
    /\ pc = "inflate"
    /\ BytesRead = 0
    /\ pc' = "rebuild"
    /\ UNCHANGED << call, error, data, outcome, result, pos, idat_data, width, height,
                    buf_size, cursor, fed, decompressed, verdict, oob >>

\* lines 150-152: decompress returns Err, `?` returns it
InflateError ==
    /\ pc = "inflate"
    /\ BytesRead > 0
    /\ Decompressed.st = "error"
    /\ Fail("Err", "Decompression error")
    /\ UNCHANGED << call, data, result, pos, idat_data, width, height,
                    buf_size, cursor, fed, decompressed, verdict, oob >>

\* an iteration that leaves the Cursor where it was
InflateStep_NoAdvance ==
    /\ pc = "inflate"
    /\ BytesRead > 0
    /\ Decompressed.st # "error"
    /\ Decompressed.used > Len(fed)
    /\ decompressed' = Decompressed.out
    /\ fed' = SubSeq(fed \o Slice(idat_data, cursor, cursor + BytesRead),
                     1, Decompressed.used)
    /\ UNCHANGED << call, error, data, pc, outcome, result, pos, idat_data,
                    width, height, buf_size, cursor, verdict, oob >>

\* lines 139-159: input was consumed, the loop goes on
InflateStep ==
    /\ pc = "inflate"
    /\ BytesRead > 0
    /\ Decompressed.st # "error"
    /\ Decompressed.used > Len(fed)
    /\ decompressed' = Decompressed.out
    /\ fed' = SubSeq(fed \o Slice(idat_data, cursor, cursor + BytesRead),
                     1, Decompressed.used)
    /\ cursor' = cursor + BytesRead
    /\ UNCHANGED << call, error, data, pc, outcome, result, pos, idat_data, width,
                    height, buf_size, verdict, oob >>

\* lines 157-159: no input was consumed, break
InflateStall ==
    /\ pc = "inflate"
    /\ BytesRead > 0
    /\ Decompressed.st # "error"
    /\ Decompressed.used = Len(fed)
    /\ decompressed' = Decompressed.out
    /\ cursor' = cursor + BytesRead
    /\ pc' = "rebuild"
    /\ UNCHANGED << call, error, data, outcome, result, pos, idat_data, width, height,
                    buf_size, fed, verdict, oob >>

\* lines 162-175, then lines 78, 82-83 and 94
Rebuild ==
    /\ pc = "rebuild"
    /\ LET swapped == swap_rgb_channels_optimized(decompressed, AsLen(width),
                                                  AsLen(height))
       IN  /\ oob' = swapped.oob
           /\ result' = result \o write_chunk(TagIDAT, ZlibEncode(swapped.buf))
                               \o write_chunk(TagIEND, << >>)
    /\ Finish("Ok")
    /\ UNCHANGED << call, error, data, pos, idat_data, width, height,
                    buf_size, cursor, fed, decompressed, verdict >>

Next ==
    \/ RejectHeader
    \/ PassThrough
    \/ BeginScan
    \/ ScanStop
    \/ ScanIHDR
    \/ ScanIHDRPanic
    \/ ScanIDAT
    \/ ScanCgBI
    \/ ScanOther
    \/ ScanIEND
    \/ EnterNormalizeIdat
    \/ SizeOverflowPanic
    \/ InflateEnd
    \/ InflateError
    \/ InflateStep
    \/ InflateStall
    \/ Rebuild

Spec == Init /\ [][Next]_vars

\* A call that has started runs on: the thread executing it keeps taking
\* the next step of the function until it returns or panics.  The calls
\* are those on buffers of up to MaxFairChunks chunks.
MaxFairChunks == 4

FairInit ==
    /\ call = "normalize_cgbi_png"
    /\ data \in InputsOf(LayoutsUpTo(MaxFairChunks))
    /\ width = << 0, 0 >>
    /\ height = << 0, 0 >>
    /\ InitCommon

FairSpec == FairInit /\ [][Next]_vars /\ WF_vars(Next)

(***************************************************************************)
(* is_cgbi_png called on its own (it is public, and callers may use it to  *)
(* skip normalization).                                                    *)
(***************************************************************************)
MaxDetectLen == 24

\* signature (intact or with a wrong first byte), a chunk length of 4, a
\* tag, then filler
DetectTemplates ==
    { sig \o << 0, 0, 0, 4 >> \o tag \o [i \in 1..(MaxDetectLen - 16) |-> i] :
        sig \in { PNG_HEADER, << 0 >> \o Slice(PNG_HEADER, 1, 8) },
        tag \in { TagCgBI, TagIHDR, TagIDAT } }

DetectInputs ==
    { SubSeq(f, 1, n) : f \in DetectTemplates, n \in 0..MaxDetectLen }

DetectInit ==
    /\ call = "is_cgbi_png"
    /\ data \in DetectInputs
    /\ width = << 0, 0 >>
    /\ height = << 0, 0 >>
    /\ InitCommon

\* lines 6-15
Detect ==
    /\ call = "is_cgbi_png" /\ pc = "start"
    /\ verdict' = is_cgbi_png(data)
    /\ pc' = "done"
    /\ UNCHANGED << call, error, data, outcome, result, pos, idat_data, width, height,
                    buf_size, cursor, fed, decompressed, oob >>

DetectNext == Detect

DetectSpec == DetectInit /\ [][DetectNext]_vars

(***************************************************************************)
(* swap_rgb_channels_optimized on arbitrary buffers and geometries.        *)
(***************************************************************************)
MaxBufLen == 22
MaxWidth == 5
MaxHeight == 2

\* byte i of a buffer is i, so that every move of a byte shows
SwapInputs == { [i \in 1..n |-> i] : n \in 0..MaxBufLen }

SwapInit ==
    /\ call = "swap_rgb_channels_optimized"
    /\ data \in SwapInputs
    /\ width \in { U32(w) : w \in 0..MaxWidth }
    /\ height \in { U32(h) : h \in 0..MaxHeight }
    /\ InitCommon

\* lines 180-221, in place on data
Swap ==
    /\ call = "swap_rgb_channels_optimized" /\ pc = "start"
    /\ LET swapped == swap_rgb_channels_optimized(data, AsLen(width),
                                                  AsLen(height))
       IN  /\ data' = swapped.buf
           /\ oob' = swapped.oob
    /\ pc' = "done"
    /\ UNCHANGED << call, error, outcome, result, pos, idat_data, width, height,
                    buf_size, cursor, fed, decompressed, verdict >>

SwapNext == Swap

SwapSpec == SwapInit /\ [][SwapNext]_vars

(***************************************************************************)
(* Properties of is_cgbi_png (DetectSpec)                                  *)
(***************************************************************************)
DetectDone == call = "is_cgbi_png" /\ pc = "done"

\* the buffer starts with the 8 signature bytes
StartsWithSignature(d) ==
    /\ Len(d) >= 8
    /\ \A i \in 1..8 : d[i] = PNG_HEADER[i]

\* bytes 12..16 exist and spell "CgBI"
MarkerAt12(d) ==
    /\ Len(d) >= 16
    /\ d[13] = 67 /\ d[14] = 103 /\ d[15] = 66 /\ d[16] = 73

TestCgbiPng == PNG_HEADER \o << 0, 0, 0, 4 >> \o TagCgBI
TestNormalPng == PNG_HEADER \o << 0, 0, 0, 4 >> \o TagIHDR

\* C4: is_cgbi_png is true for the 16-byte buffer signature, length, "CgBI"
\* and false for the same buffer with the tag "IHDR".
C4_TestIsCgbiPng ==
    DetectDone =>
        /\ data = TestCgbiPng => verdict
        /\ data = TestNormalPng => ~verdict

(***************************************************************************)
(* Properties of swap_rgb_channels_optimized (SwapSpec)                    *)
(***************************************************************************)
\* The per-pixel reference, byte by byte: rows of 1 + 4 * w bytes, the
\* first a filter byte; in each of the first h rows every 4-byte group that
\* lies whole inside the buffer has its bytes 0 and 2 exchanged.
RefSwapped(buf, w, h) ==
    [ i \in 1..Len(buf) |->
        LET k      == i - 1
            stride == 1 + 4 * w
            row    == k \div stride
            off    == k % stride
            c      == (off - 1) % 4
            whole  == (k - c) + 3 < Len(buf)
        IN  IF row >= h \/ off = 0 \/ ~whole THEN buf[i]
            ELSE IF c = 0 THEN buf[i + 2]
            ELSE IF c = 2 THEN buf[i - 2]
            ELSE buf[i] ]

\* the one-pixel-per-step path alone, row by row
RECURSIVE OnePixelRows(_, _, _, _)
OnePixelRows(r, p, rows, w) ==
    IF rows = 0 \/ p >= Len(r.buf) THEN r
    ELSE LET row_end == Min(p + 1 + w * 4, Len(r.buf))
         IN  OnePixelRows(SwapRemaining(r, p + 1, row_end), row_end, rows - 1, w)

\* C8: the swap turns the buffer into the per-pixel reference (filter
\* bytes, bytes 1 and 3 of each pixel, an incomplete trailing group and the
\* length unchanged), touches no index outside the buffer, and the batched
\* path agrees with the one-pixel path.
C8_SwapMatchesReference ==
    [][ (call = "swap_rgb_channels_optimized" /\ pc = "start") =>
            /\ data' = RefSwapped(data, AsLen(width), AsLen(height))
            /\ data' = OnePixelRows([buf |-> data, oob |-> FALSE], 0,
                                    AsLen(height), AsLen(width)).buf
            /\ Len(data') = Len(data)
            /\ ~oob' ]_vars

\* a row of five pixels was swapped: four in one batch, the fifth by the
\* remainder loop, and the byte after the row is in place
C8_Witness ==
    /\ call = "swap_rgb_channels_optimized" /\ pc = "done"
    /\ width = U32(5) /\ height = U32(1)
    /\ Len(data) >= 22
    /\ data[1] = 1
    /\ data[2] = 4 /\ data[3] = 3 /\ data[4] = 2 /\ data[5] = 5
    /\ data[14] = 16 /\ data[16] = 14
    /\ data[18] = 20 /\ data[20] = 18
    /\ data[22] = 22

(***************************************************************************)
(* Reference readings of PNG byte streams, used to state the properties of *)
(* normalize_cgbi_png (Spec).  They are written from the PNG format, not   *)
(* from the code.                                                          *)
(***************************************************************************)
NormDone == call = "normalize_cgbi_png" /\ pc = "done"

\* the input is one BeginScan accepts: 20 bytes or more, signature, marker
VendorInput(d) ==
    Len(d) >= 20 /\ StartsWithSignature(d) /\ MarkerAt12(d)

\* the whole chunks of d from offset p on: a chunk is whole when its 12
\* bytes of length, tag and CRC and its declared payload lie inside d
RECURSIVE RefChunksFrom(_, _)
RefChunksFrom(d, p) ==
    IF p + 12 > Len(d) THEN << >>
    ELSE IF d[p + 1] # 0 \/ d[p + 2] # 0 THEN << >>
    ELSE LET n == d[p + 3] * 256 + d[p + 4]
         IN  IF p + 12 + n > Len(d) THEN << >>
             ELSE << [ type    |-> SubSeq(d, p + 5, p + 8),
                       payload |-> SubSeq(d, p + 9, p + 8 + n),
                       crc     |-> SubSeq(d, p + 9 + n, p + 12 + n),
                       at      |-> p ] >>
                  \o RefChunksFrom(d, p + 12 + n)

RefChunks(d) == RefChunksFrom(d, 8)

\* the number of bytes the whole chunks of d take, signature included
RECURSIVE RefSpan(_, _)
RefSpan(cs, i) ==
    IF i > Len(cs) THEN 8 ELSE 12 + Len(cs[i].payload) + RefSpan(cs, i + 1)

\* index of the first chunk of cs with the given tag, Len(cs) + 1 if none
RECURSIVE FirstOf(_, _, _)
FirstOf(cs, tag, i) ==
    IF i > Len(cs) THEN i
    ELSE IF cs[i].type = tag THEN i
    ELSE FirstOf(cs, tag, i + 1)

HasTag(cs, tag) == \E i \in 1..Len(cs) : cs[i].type = tag
CountTag(cs, tag) == Cardinality({ i \in 1..Len(cs) : cs[i].type = tag })

\* the chunks of cs before its first IEND
BeforeIEND(cs) == SubSeq(cs, 1, FirstOf(cs, TagIEND, 1) - 1)

\* the (type, payload) pairs of the chunks of cs whose tag is not in drop
RECURSIVE PairsWithout(_, _, _)
PairsWithout(cs, drop, i) ==
    IF i > Len(cs) THEN << >>
    ELSE (IF cs[i].type \in drop THEN << >>
          ELSE << << cs[i].type, cs[i].payload >> >>)
         \o PairsWithout(cs, drop, i + 1)

\* the payloads of the IDAT chunks of cs, concatenated
RECURSIVE IdatOf(_, _)
IdatOf(cs, i) ==
    IF i > Len(cs) THEN << >>
    ELSE (IF cs[i].type = TagIDAT THEN cs[i].payload ELSE << >>)
         \o IdatOf(cs, i + 1)

\* TRUE when the last IHDR of cs gives a width and a height above zero
GeometryKnown(cs) ==
    \E i \in 1..Len(cs) :
        /\ cs[i].type = TagIHDR
        /\ \A j \in (i + 1)..Len(cs) : cs[j].type # TagIHDR
        /\ Len(cs[i].payload) >= 8
        /\ \E j \in 1..4 : cs[i].payload[j] # 0
        /\ \E j \in 5..8 : cs[i].payload[j] # 0

\* CRC-32 of PNG (ISO 3309), byte-wise with the table of the PNG
\* specification's sample code
RefCrcTable ==
    [ n \in 0..255 |->
        LET step(c) == IF c[2] % 2 = 1
                       THEN << Xor16(c[1] \div 2, 60856),
                               Xor16((c[2] \div 2) + (c[1] % 2) * 32768, 33568) >>
                       ELSE << c[1] \div 2, (c[2] \div 2) + (c[1] % 2) * 32768 >>
        IN  step(step(step(step(step(step(step(step(<< 0, n >>)))))))) ]

RECURSIVE RefCrcFold(_, _, _)
RefCrcFold(c, s, i) ==
    IF i > Len(s) THEN c
    ELSE LET e == RefCrcTable[Xor16(c[2] % 256, s[i])]
             n == << Xor16(e[1], c[1] \div 256),
                     Xor16(e[2], (c[1] % 256) * 256 + (c[2] \div 256)) >>
         IN  IF n[1] >= 0 THEN RefCrcFold(n, s, i + 1) ELSE n

\* the four CRC bytes PNG asks for after a chunk of this tag and payload
RefCrcBytes(tag, payload) ==
    LET c == RefCrcFold(<< 65535, 65535 >>, tag \o payload, 1)
    IN  << 255 - (c[1] \div 256), 255 - (c[1] % 256),
           255 - (c[2] \div 256), 255 - (c[2] % 256) >>

\* the bytes a zlib stream z decodes to, or << -1 >> when z is no valid
\* zlib stream (RFC 1950: CM = 8, header check, no dictionary, Adler-32)
RefZlibDecode(z) ==
    IF Len(z) < 6 THEN << -1 >>
    ELSE LET body == SubSeq(z, 3, Len(z) - 4)
             r    == Inflate(body, Half)
         IN  IF /\ z[1] % 16 = 8
                /\ (z[1] * 256 + z[2]) % 31 = 0
                /\ (z[2] \div 32) % 2 = 0
                /\ r.st = "end"
                /\ r.used = Len(body)
                /\ SubSeq(z, Len(z) - 3, Len(z)) = to_be_bytes(Adler32(r.out))
             THEN r.out
             ELSE << -1 >>

\* every chunk of the stream d is whole and carries the CRC of its tag and
\* payload, and the chunks fill d
WellFormedChunks(d) ==
    LET cs == RefChunks(d)
    IN  /\ RefSpan(cs, 1) = Len(d)
        /\ \A i \in 1..Len(cs) :
               cs[i].crc = RefCrcBytes(cs[i].type, cs[i].payload)

(***************************************************************************)
(* Properties of normalize_cgbi_png (Spec)                                 *)
(***************************************************************************)
\* the file of the end-to-end scenario as the specification lays it out
\* (header chunk, then marker chunk) and as CgBI files are laid out
\* (marker chunk, then header chunk), with true or with wrong input CRCs
HeaderFirstFiles ==
    { File(<< "IHDR", "CgBI", "IDAT", "IEND" >>, g) : g \in BOOLEAN }
MarkerFirstFiles ==
    { File(<< "CgBI", "IHDR", "IDAT", "IEND" >>, g) : g \in BOOLEAN }

\* the output of the end-to-end scenario: Ok, an IDAT chunk that decodes to
\* the filter byte 0 and the pixel in RGBA order, no CgBI chunk, every
\* chunk with the CRC of its tag and payload
ScenarioOutput ==
    LET out == RefChunks(result)
    IN  /\ outcome = "Ok"
        /\ \E i \in 1..Len(out) :
               /\ out[i].type = TagIDAT
               /\ RefZlibDecode(out[i].payload) = << 0, 30, 20, 10, 255 >>
        /\ ~HasTag(out, TagCgBI)
        /\ WellFormedChunks(result)

\* C1, as stated: for signature, IHDR (1x1), CgBI, IDAT (raw deflate of
\* [0, 10,20,30,255]), IEND the result has an IDAT that decodes to
\* [0, 30,20,10,255], no CgBI chunk and recomputed CRCs.
C1_Original ==
    (NormDone /\ data \in HeaderFirstFiles) => ScenarioOutput

\* C1, amended: the same for the layout signature, CgBI, IHDR (1x1), IDAT,
\* IEND, in which the marker chunk comes first.
C1_EndToEnd ==
    (NormDone /\ data \in MarkerFirstFiles) => ScenarioOutput

\* the marker-first scenario file has been normalized
C1_Witness ==
    /\ NormDone
    /\ data \in MarkerFirstFiles
    /\ outcome = "Ok"
    /\ result # data

\* C2: a buffer of 20 bytes or more that starts with the signature and for
\* which is_cgbi_png is false comes back Ok and byte for byte; the result
\* is again such a buffer, so a second call returns it again.
C2_PassThrough ==
    (NormDone /\ Len(data) >= 20 /\ StartsWithSignature(data)
        /\ ~MarkerAt12(data)) =>
        /\ outcome = "Ok"
        /\ result = data
        /\ Len(result) >= 20 /\ StartsWithSignature(result)
        /\ ~MarkerAt12(result)

\* a standard PNG (IHDR, IDAT, IEND, true CRCs) has been passed through
C2_Witness ==
    /\ NormDone
    /\ data = File(<< "IHDR", "IDAT", "IEND" >>, TRUE)
    /\ outcome = "Ok"
    /\ result = data

\* C5: a rebuilt output is the signature followed by chunks of the form
\* length, tag, payload, CRC-32 of tag and payload; the CRC is computed
\* anew, so the wrong CRC of an input chunk is in no output chunk (IEND
\* always ends in AE 42 60 82).
C5_ChunkForm ==
    (NormDone /\ VendorInput(data) /\ outcome = "Ok") =>
        LET out == RefChunks(result)
        IN  /\ SubSeq(result, 1, 8) = PNG_HEADER
            /\ WellFormedChunks(result)
            /\ \A i \in 1..Len(out) :
                   /\ out[i].crc # << 222, 173, 190, 239 >>
                   /\ out[i].type = TagIEND =>
                          out[i].crc = << 174, 66, 96, 130 >>

\* a file whose chunks all carry a wrong CRC has been rebuilt into header,
\* text, pixel and end chunks
C5_Witness ==
    /\ NormDone
    /\ data = File(<< "CgBI", "IHDR", "tEXt", "IDAT", "IEND" >>, FALSE)
    /\ outcome = "Ok"
    /\ Len(RefChunks(result)) = 4

\* C6: the output chunks other than the rebuilt IDAT and the final IEND are
\* the input chunks before IEND without the CgBI and IDAT chunks, with
\* their payloads, in their order; no CgBI chunk is written.
C6_ChunkFilter ==
    (NormDone /\ VendorInput(data) /\ outcome = "Ok") =>
        LET out == RefChunks(result)
            inp == BeforeIEND(RefChunks(data))
        IN  /\ PairsWithout(out, { TagIDAT, TagIEND }, 1)
                   = PairsWithout(inp, { TagCgBI, TagIDAT, TagIEND }, 1)
            /\ ~HasTag(out, TagCgBI)
            /\ CountTag(out, TagIEND) <= 1

\* a file with a text chunk before the header chunk and pixel data has been
\* rebuilt
C6_Witness ==
    /\ NormDone
    /\ data = File(<< "CgBI", "tEXt", "IHDR", "IDAT", "IEND" >>, TRUE)
    /\ outcome = "Ok"
    /\ PairsWithout(RefChunks(result), { TagIDAT, TagIEND }, 1)
           = << << TagTEXT, KindPayload("tEXt") >>,
                << TagIHDR, KindPayload("IHDR") >> >>

\* C7: when the scan has reached IEND, accumulated pixel data with a known
\* geometry gives exactly one IDAT, directly before IEND; no accumulated
\* pixel data gives no IDAT; IEND is the last chunk, the scan stands at the
\* input's IEND; and no output has two IDAT chunks.
C7_TerminalChunk ==
    (NormDone /\ VendorInput(data) /\ outcome = "Ok") =>
        LET out  == RefChunks(result)
            all  == RefChunks(data)
            inp  == BeforeIEND(all)
            idat == IdatOf(inp, 1)
        IN  /\ CountTag(out, TagIDAT) <= 1
            /\ HasTag(all, TagIEND) =>
                   /\ Len(out) >= 1
                   /\ out[Len(out)].type = TagIEND
                   /\ out[Len(out)].payload = << >>
                   /\ CountTag(out, TagIEND) = 1
                   /\ pos = all[FirstOf(all, TagIEND, 1)].at
                   /\ (idat # << >> /\ GeometryKnown(inp)) =>
                          /\ Len(out) >= 2
                          /\ out[Len(out) - 1].type = TagIDAT
                          /\ CountTag(out, TagIDAT) = 1
                   /\ idat = << >> => CountTag(out, TagIDAT) = 0

\* two IDAT chunks were merged into one rebuilt IDAT before IEND, and the
\* text chunk after IEND was left alone
C7_Witness ==
    /\ NormDone
    /\ \E g \in BOOLEAN :
           data = File(<< "CgBI", "IHDR", "IDATa", "IDATb", "IEND" >>, g)
    /\ outcome = "Ok"
    /\ Len(RefChunks(result)) = 3
    /\ RefChunks(result)[2].type = TagIDAT
    /\ RefZlibDecode(RefChunks(result)[2].payload) = << 0, 30, 20, 10, 255 >>

\* the input ends inside a chunk: bytes are left after its whole chunks
CutMidChunk(d) == RefSpan(RefChunks(d), 1) < Len(d)

\* C9: a buffer cut off mid-chunk after the header chunk gives Ok (no
\* crash) and the signature followed by the re-encoded chunks that were
\* parsed whole before the cut, nothing of the incomplete chunk.
C9_Truncation ==
    (NormDone /\ VendorInput(data) /\ CutMidChunk(data)
        /\ HasTag(RefChunks(data), TagIHDR)
        /\ ~HasTag(RefChunks(data), TagIEND)) =>
        /\ outcome = "Ok"
        /\ WellFormedChunks(result)
        /\ PairsWithout(RefChunks(result), { }, 1)
               = PairsWithout(RefChunks(data), { TagCgBI, TagIDAT }, 1)

\* the state of the raw DEFLATE stream s once all of it is read: "end"
\* (complete), "more" (unterminated) or "error" (corrupt)
StreamState(s) == Inflate(s, Half).st

\* C10: when the concatenated IDAT payload is a corrupt or an unterminated
\* raw DEFLATE stream and the rebuild is attempted (IEND reached, geometry
\* known), the call does not return Ok.
C10_DecompressionFatal ==
    LET all  == RefChunks(data)
        inp  == BeforeIEND(all)
        idat == IdatOf(inp, 1)
    IN  (NormDone /\ VendorInput(data) /\ HasTag(all, TagIEND)
            /\ idat # << >> /\ GeometryKnown(inp)
            /\ StreamState(idat) \in { "error", "more" }) =>
            outcome # "Ok"

\* the buffer is shorter than 20 bytes or does not start with the signature
MalformedHeader(d) == Len(d) < 20 \/ ~StartsWithSignature(d)

\* C11: for a buffer shorter than 20 bytes or without the signature the
\* call goes from its entry straight to Err("Invalid PNG header"): the chunk
\* scan is never entered, no chunk is read or accumulated, and no byte of
\* output exists at any moment.
C11_MalformedHeader ==
    (call = "normalize_cgbi_png" /\ MalformedHeader(data)) =>
        /\ pc \in { "start", "done" }
        /\ result = << >>
        /\ pos = 0
        /\ idat_data = << >>
        /\ pc = "done" =>
               /\ outcome = "Err"
               /\ error = "Invalid PNG header"

\* a 19-byte buffer with the signature and the marker tag was rejected, and
\* so was a 36-byte buffer with a wrong first byte
C11_Witness ==
    /\ NormDone
    /\ outcome = "Err"
    /\ error = "Invalid PNG header"
    /\ result = << >>
    /\ \/ Len(data) = 19 /\ StartsWithSignature(data) /\ MarkerAt12(data)
       \/ Len(data) >= 20 /\ data[1] # PNG_HEADER[1]

\* The exact size h * (4 * w + 1) = w * h * 4 + h as nine base-256 digits,
\* least significant first, computed without any wrap: first the five
\* digits of 4 * w + 1, then their product with the four digits of h.
RECURSIVE RefFourTimesPlusOne(_, _, _)
RefFourTimesPlusOne(x, k, carry) ==
    IF k > 4 THEN << carry >>
    ELSE LET c == 4 * x[k] + carry
         IN  << c % 256 >> \o RefFourTimesPlusOne(x, k + 1, c \div 256)

RECURSIVE RefProduct(_, _, _, _)
RefProduct(a, b, k, carry) ==
    IF k > 9 THEN << >>
    ELSE LET col == { i \in 1..Len(a) : k + 1 - i >= 1 /\ k + 1 - i <= Len(b) }
             RECURSIVE sum(_)
             sum(S) == IF S = { } THEN 0
                       ELSE LET i == CHOOSE j \in S : TRUE
                            IN  a[i] * b[k + 1 - i] + sum(S \ { i })
             c == sum(col) + carry
         IN  << c % 256 >> \o RefProduct(a, b, k + 1, c \div 256)

RefExactSize(w, h) ==
    LET digits(v) == << v[2] % 256, v[2] \div 256, v[1] % 256, v[1] \div 256 >>
    IN  RefProduct(RefFourTimesPlusOne(digits(w), 1, 1), digits(h), 1, 0)

\* the digits of a buffer length given as a u32 / usize of the model
SizeDigits(n) ==
    << n[2] % 256, n[2] \div 256, n[1] % 256, n[1] \div 256, 0, 0, 0, 0, 0 >>

\* C12: once normalize_idat has sized its destination buffer, the size is
\* exactly width * height * 4 + height for the width and height read from
\* IHDR, and the call never ends in an arithmetic overflow of that
\* computation.
C12_ExactBufferSize ==
    /\ pc \in { "inflate", "rebuild" } =>
           SizeDigits(buf_size) = RefExactSize(width, height)
    /\ ~(pc = "done" /\ outcome = "Panic" /\ error = "arithmetic overflow")

\* an iteration of the chunk-scan loop that does not leave the loop moves
\* pos forward by at least 12 bytes and not past the end of the buffer
ScanAdvances ==
    (pc = "scan" /\ pc' = "scan") => (pos' >= pos + 12 /\ pos' <= Len(data))

\* an iteration of the inflate loop that does not leave the loop takes at
\* least one more byte of the compressed buffer and not more than it holds
InflateAdvances ==
    (pc = "inflate" /\ pc' = "inflate") =>
        (cursor' >= cursor + 1 /\ cursor' <= Len(idat_data))

\* C13: every step of the chunk-scan loop stops the loop or moves pos
\* forward by at least 12, every step of the inflate loop stops the loop or
\* takes at least one more byte of the compressed buffer, and every call
\* comes to its end.
C13_Termination ==
    /\ [][ScanAdvances /\ InflateAdvances]_vars
    /\ <>(pc = "done")

\* a call has ended after more than one iteration of the chunk-scan loop
\* and more than one iteration of the inflate loop
C13_Witness ==
    /\ NormDone
    /\ outcome = "Ok"
    /\ pos >= 8 + 2 * 12
    /\ cursor > TempBufLen
    /\ cursor = Len(idat_data)

\* C14: a call on a buffer of 20 bytes or more with the marker tag at bytes
\* 12..16 ends with Ok or Err: no read of the buffer, no geometry read of
\* an IHDR payload (whatever length the chunk declares) and no swap leaves
\* the bytes it works on.
C14_NoOutOfRange ==
    (NormDone /\ VendorInput(data)) =>
        /\ outcome \in { "Ok", "Err" }
        /\ ~oob

====
